---- MODULE Spec2Model ----
(***************************************************************************)
(* Model of arcade.types.rect: the immutable Rect value type, its named    *)
(* constructors (LRBT, LBWH, XYWH, XYRR, Viewport) and its non-mutating    *)
(* operations.  Numbers are exact rationals <<n, d>> in lowest terms with  *)
(* d > 0, so that "/ 2" and "/ self.width" are computed, not assumed.      *)
(***************************************************************************)
EXTENDS Integers, Sequences, FiniteSets, TLC

VARIABLES r, cls, call, chain, box, arcs, current_view, shows, hides

vars == <<r, cls, call, chain, box, arcs, current_view, shows, hides>>

\* ------------------------------------------------------------------ bounds
\* Constructor inputs, deltas, sizes and limits range over 0..MaxCoord.
MaxCoord == 2
\* Number of method calls applied in sequence to a constructed Rect (SpecSeq).
MaxChain == 2
\* Box constructor inputs and deltas range over 0..MaxBox.
MaxBox == 1
\* Views are numbered 1..MaxViews; a window is shown at most MaxShows views.
MaxViews == 3
MaxShows == 6

\* ----------------------------------------------------- exact float values
Abs(n) == IF n < 0 THEN -n ELSE n

RECURSIVE GCD(_, _)
GCD(a, b) == IF b = 0 THEN a ELSE GCD(b, a % b)

\* A number n/d in lowest terms, d > 0.
Norm(n, d) ==
    LET s == IF d < 0 THEN -1 ELSE 1
        g == GCD(Abs(n), Abs(d))
    IN  <<(s * n) \div g, (s * d) \div g>>

AsFloat(i) == <<i, 1>>

Zero == <<0, 1>>
Two == <<2, 1>>

\* Python's None and float("inf"); neither has a positive denominator.
None == <<0, 0>>
Inf == <<1, 0>>

Add(a, b) == Norm(a[1] * b[2] + b[1] * a[2], a[2] * b[2])
Sub(a, b) == Norm(a[1] * b[2] - b[1] * a[2], a[2] * b[2])
Mul(a, b) == Norm(a[1] * b[1], a[2] * b[2])
\* a / b for b # 0 (Python raises ZeroDivisionError otherwise).
Div(a, b) == Norm(a[1] * b[2], a[2] * b[1])

\* a < b, a <= b; Inf is above every finite number.
Lt(a, b) ==
    IF a = Inf THEN FALSE
    ELSE IF b = Inf THEN TRUE
    ELSE a[1] * b[2] < b[1] * a[2]
Le(a, b) == ~Lt(b, a)

\* Python's min(a, b) and max(a, b): the first argument wins ties.
Min(a, b) == IF Lt(b, a) THEN b ELSE a
Max(a, b) == IF Lt(a, b) THEN b ELSE a

\* Python's "v or default": None, 0 and 0.0 are falsy.
Or(v, default) == IF v = None \/ v = Zero THEN default ELSE v

\* ------------------------------------------------------------------- Vec2
\* A Vec2 is the pair (x, y).
Vec2(v_x, v_y) == <<v_x, v_y>>
VecX(v) == v[1]
VecY(v) == v[2]

\* The nine AnchorPoint constants.
Half == <<1, 2>>
One == <<1, 1>>
AnchorPoint ==
    { Vec2(ax, ay) : ax \in {Zero, Half, One}, ay \in {Zero, Half, One} }
CENTER == Vec2(Half, Half)

\* ------------------------------------------------------------------- Rect
\* Rect is a NamedTuple: the tuple of its eight fields, in declaration order.
Rect(left, right, bottom, top, width, height, x, y) ==
    <<left, right, bottom, top, width, height, x, y>>

Left(rect) == rect[1]
Right(rect) == rect[2]
Bottom(rect) == rect[3]
Top(rect) == rect[4]
Width(rect) == rect[5]
Height(rect) == rect[6]
X(rect) == rect[7]
Y(rect) == rect[8]

LRBT(left, right, bottom, top) ==
    LET width == Sub(right, left)
        height == Sub(top, bottom)
        x == Add(left, Div(width, Two))
        y == Add(bottom, Div(height, Two))
    IN  Rect(left, right, bottom, top, width, height, x, y)

LBWH(left, bottom, width, height) ==
    LET right == Add(left, width)
        top == Add(bottom, height)
        x == Add(left, Div(width, Two))
        y == Add(bottom, Div(height, Two))
    IN  Rect(left, right, bottom, top, width, height, x, y)

XYWH(x, y, width, height) ==
    LET left == Sub(x, Div(width, Two))
        right == Add(x, Div(width, Two))
        bottom == Sub(y, Div(width, Two))
        top == Add(y, Div(width, Two))
    IN  Rect(left, right, bottom, top, width, height, x, y)

XYRR(x, y, half_width, half_height) ==
    LET left == Sub(x, half_width)
        right == Add(x, half_width)
        bottom == Sub(y, half_width)
        top == Add(y, half_width)
    IN  Rect(left, right, bottom, top,
             Mul(half_width, Two), Mul(half_height, Two), x, y)

Viewport(x, y, width, height) ==
    LET left == Sub(x, Div(width, Two))
        right == Add(x, Div(width, Two))
        bottom == Sub(y, Div(width, Two))
        top == Add(y, Div(width, Two))
    IN  Rect(left, right, bottom, top, width, height, x, y)

\* ---------------------------------------------------------------- results
\* What a call returns: a Rect, a bool, None, or a raised exception.
RetRect(rect) == <<"Rect", rect>>
RetBool(b) == <<"bool", b>>
RetNone == <<"None">>
RetTuple(t) == <<"tuple", t>>
Raise(exc) == <<"raise", exc>>

\* ---------------------------------------------------------- Rect methods
\* Rect defines no __bool__ and no __len__ of its own: its truth value is
\* the tuple's, len(self) != 0, over the eight NamedTuple fields.
bool(self) == Len(self) # 0

at_position(self, position) ==
    XYWH(VecX(position), VecY(position), Width(self), Height(self))

move(self, dx, dy) ==
    XYWH(Add(X(self), dx), Add(Y(self), dy), Width(self), Height(self))

\* VecX(new_size) / Width(self) and VecY(new_size) / Height(self) raise on a zero
\* divisor before anything else is computed.
resize(self, new_size, anchor) ==
    IF Width(self) = Zero \/ Height(self) = Zero
    THEN Raise("ZeroDivisionError")
    ELSE
    LET anchor_x == Add(Left(self), Mul(VecX(anchor), Width(self)))
        anchor_y == Add(Bottom(self), Mul(VecY(anchor), Height(self)))
        ratio_x == Div(VecX(new_size), Width(self))
        ratio_y == Div(VecY(new_size), Height(self))
        adjusted_left == Add(anchor_x, Mul(Sub(Left(self), anchor_x), ratio_x))
        adjusted_right == Add(anchor_x, Mul(Sub(Right(self), anchor_x), ratio_x))
        adjusted_top == Add(anchor_y, Mul(Sub(Top(self), anchor_y), ratio_y))
        adjusted_bottom == Add(anchor_y, Mul(Sub(Bottom(self), anchor_y), ratio_y))
    IN  RetRect(LRBT(adjusted_left, adjusted_right, adjusted_top, adjusted_bottom))

scale(self, new_scale, anchor) ==
    LET anchor_x == Add(Left(self), Mul(VecX(anchor), Width(self)))
        anchor_y == Add(Bottom(self), Mul(VecY(anchor), Height(self)))
        adjusted_left == Add(anchor_x, Mul(Sub(Left(self), anchor_x), new_scale))
        adjusted_right == Add(anchor_x, Mul(Sub(Right(self), anchor_x), new_scale))
        adjusted_top == Add(anchor_y, Mul(Sub(Top(self), anchor_y), new_scale))
        adjusted_bottom == Add(anchor_y, Mul(Sub(Bottom(self), anchor_y), new_scale))
    IN  LRBT(adjusted_left, adjusted_right, adjusted_top, adjusted_bottom)

align_top(self, value) ==
    LET diff_y == Sub(value, Top(self)) IN move(self, Zero, diff_y)

align_bottom(self, value) ==
    LET diff_y == Sub(value, Bottom(self)) IN move(self, Zero, diff_y)

align_left(self, value) ==
    LET diff_x == Sub(value, Left(self)) IN move(self, diff_x, Zero)

align_right(self, value) ==
    LET diff_x == Sub(value, Right(self)) IN move(self, diff_x, Zero)

align_center(self, value) ==
    LET diff_x == Sub(VecX(value), X(self))
        diff_y == Sub(VecY(value), Y(self))
    IN  move(self, diff_x, diff_y)

align_center_x(self, value) ==
    LET diff_x == Sub(value, X(self)) IN move(self, diff_x, Zero)

align_center_y(self, value) ==
    LET diff_y == Sub(value, Y(self)) IN move(self, Zero, diff_y)

min_size(self, width, height) ==
    LBWH(Left(self), Bottom(self),
         Max(Or(width, Zero), Width(self)), Max(Or(height, Zero), Height(self)))

max_size(self, width, height) ==
    LBWH(Left(self), Bottom(self),
         Min(Or(width, Inf), Width(self)), Min(Or(height, Inf), Height(self)))

\* union with a slip: the right edge taken from other.left.
union_slip(self, other) ==
    LRBT(Min(Left(self), Left(other)), Max(Right(self), Left(other)),
         Min(Bottom(self), Bottom(other)), Max(Top(self), Top(other)))

union(self, other) ==
    LRBT(Min(Left(self), Left(other)), Max(Right(self), Right(other)),
         Min(Bottom(self), Bottom(other)), Max(Top(self), Top(other)))

overlaps(self, other) ==
    LET u == union(self, other)
    IN  Lt(Zero, Width(u)) \/ Lt(Zero, Height(u))

\* collides with strict comparisons: touching edges would not collide.
collides_strict(self, other) ==
    /\ Lt(Left(other), Right(self)) /\ Lt(Left(self), Right(other))
    /\ Lt(Bottom(other), Top(self)) /\ Lt(Bottom(self), Top(other))

collides(self, other) ==
    /\ Le(Left(other), Right(self)) /\ Le(Left(self), Right(other))
    /\ Le(Bottom(other), Top(self)) /\ Le(Bottom(self), Top(other))

intersect(self, other) ==
    IF ~collides(self, other)
    THEN RetNone
    ELSE RetRect(LRBT(Max(Left(self), Left(other)), Min(Right(self), Right(other)),
                      Max(Bottom(self), Bottom(other)), Min(Top(self), Top(other))))

\* Python's int(v): truncation toward zero.
int(v) == IF v[1] < 0 THEN <<-((-v[1]) \div v[2]), 1>> ELSE <<v[1] \div v[2], 1>>

\* The classes with a constructor of four arguments.
Classes == {"LRBT", "LBWH", "XYWH", "XYRR", "Viewport"}

\* klass(*t): klass.__new__ with the four values of t.
New(klass, t) ==
    CASE klass = "LRBT" -> LRBT(t[1], t[2], t[3], t[4])
      [] klass = "LBWH" -> LBWH(t[1], t[2], t[3], t[4])
      [] klass = "XYWH" -> XYWH(t[1], t[2], t[3], t[4])
      [] klass = "XYRR" -> XYRR(t[1], t[2], t[3], t[4])
      [] klass = "Viewport" -> Viewport(t[1], t[2], t[3], t[4])

\* LRBT.from_rect with a slip: top and bottom in the order of Rect.from_rect.
from_rect_slip(klass, rect) ==
    CASE klass = "LRBT" -> <<Left(rect), Right(rect), Top(rect), Bottom(rect)>>
      [] klass = "LBWH" -> <<Left(rect), Bottom(rect), Width(rect), Height(rect)>>
      [] klass = "XYWH" -> <<X(rect), Y(rect), Width(rect), Height(rect)>>
      [] klass = "XYRR" ->
             <<X(rect), Y(rect), Div(Width(rect), Two), Div(Height(rect), Two)>>
      [] klass = "Viewport" ->
             <<int(X(rect)), int(Y(rect)), int(Width(rect)), int(Height(rect))>>

\* klass.from_rect(rect): the bare tuple of the class's four arguments.
from_rect(klass, rect) ==
    CASE klass = "LRBT" -> <<Left(rect), Right(rect), Bottom(rect), Top(rect)>>
      [] klass = "LBWH" -> <<Left(rect), Bottom(rect), Width(rect), Height(rect)>>
      [] klass = "XYWH" -> <<X(rect), Y(rect), Width(rect), Height(rect)>>
      [] klass = "XYRR" ->
             <<X(rect), Y(rect), Div(Width(rect), Two), Div(Height(rect), Two)>>
      [] klass = "Viewport" ->
             <<int(X(rect)), int(Y(rect)), int(Width(rect)), int(Height(rect))>>

\* self.to_tuple(): self.__class__.from_rect(self).
to_tuple(klass, self) == from_rect(klass, self)

\* The class of the Rect a method returns: the constructor it ends with.
ResultClass(name) ==
    CASE name \in {"resize", "scale", "union", "intersect"} -> "LRBT"
      [] name \in {"min_size", "max_size"} -> "LBWH"
      [] OTHER -> "XYWH"

\* ------------------------------------------------------------ input sets
Coords == { AsFloat(i) : i \in 0..MaxCoord }
\* An optional limit: a number or None.
Limits == Coords \cup {None}
Points == { Vec2(px, py) : px \in Coords, py \in Coords }
\* The argument of the binary operations: every Rect over the grid.
Others ==
    { LRBT(ol, or, ob, ot) : ol \in Coords, or \in Coords, ob \in Coords, ot \in Coords }

\* ------------------------------------------------------------------ calls
\* The last call: its name, its receiver (none for a constructor), its
\* arguments and what it returned.
NoSelf == <<>>
Call(name, self, args, ret) == <<name, self, args, ret>>
Op(c) == c[1]
Self(c) == c[2]
Args(c) == c[3]
Ret(c) == c[4]
\* The Rect a call returned, when Ret(c)[1] = "Rect".
RetOf(c) == c[4][2]

\* A constructor binds the name r, as r = LRBT(10, 20, 10, 20) does; until
\* then r is unbound.  chain counts the method calls made on r since.
Unbound == <<>>

\* The views of a window, and the value of current_view before any is shown.
Views == 1..MaxViews
NoView == 0

Construct(name, a1, a2, a3, a4, rect) ==
    /\ r' = rect
    /\ cls' = name
    /\ UNCHANGED <<box, arcs, current_view, shows, hides>>
    /\ call' = Call(name, NoSelf, <<a1, a2, a3, a4>>, RetRect(rect))
    /\ chain' = 0

Fresh == r = Unbound

NewLRBT ==
    \E left \in Coords, right \in Coords, bottom \in Coords, top \in Coords :
        Construct("LRBT", left, right, bottom, top, LRBT(left, right, bottom, top))

NewLBWH ==
    \E left \in Coords, bottom \in Coords, width \in Coords, height \in Coords :
        Construct("LBWH", left, bottom, width, height, LBWH(left, bottom, width, height))

NewXYWH ==
    \E x \in Coords, y \in Coords, width \in Coords, height \in Coords :
        Construct("XYWH", x, y, width, height, XYWH(x, y, width, height))

NewXYRR ==
    \E x \in Coords, y \in Coords, half_width \in Coords, half_height \in Coords :
        Construct("XYRR", x, y, half_width, half_height,
                  XYRR(x, y, half_width, half_height))

NewViewport ==
    \E x \in Coords, y \in Coords, width \in Coords, height \in Coords :
        Construct("Viewport", x, y, width, height, Viewport(x, y, width, height))

\* r.<name>(*args) returns ret.
Method(name, args, ret) ==
    call' = Call(name, r, args, ret)

Bool == Method("bool", <<>>, RetBool(bool(r)))

AtPosition ==
    \E position \in Points :
        Method("at_position", <<position>>, RetRect(at_position(r, position)))

Move ==
    \E dx \in Coords, dy \in Coords :
        Method("move", <<dx, dy>>, RetRect(move(r, dx, dy)))

Resize ==
    \E new_size \in Points, anchor \in AnchorPoint :
        Method("resize", <<new_size, anchor>>, resize(r, new_size, anchor))

Scale ==
    \E new_scale \in Coords, anchor \in AnchorPoint :
        Method("scale", <<new_scale, anchor>>, RetRect(scale(r, new_scale, anchor)))

AlignTop ==
    \E value \in Coords : Method("align_top", <<value>>, RetRect(align_top(r, value)))

AlignBottom ==
    \E value \in Coords :
        Method("align_bottom", <<value>>, RetRect(align_bottom(r, value)))

AlignLeft ==
    \E value \in Coords : Method("align_left", <<value>>, RetRect(align_left(r, value)))

AlignRight ==
    \E value \in Coords :
        Method("align_right", <<value>>, RetRect(align_right(r, value)))

AlignCenter ==
    \E value \in Points :
        Method("align_center", <<value>>, RetRect(align_center(r, value)))

AlignCenterX ==
    \E value \in Coords :
        Method("align_center_x", <<value>>, RetRect(align_center_x(r, value)))

AlignCenterY ==
    \E value \in Coords :
        Method("align_center_y", <<value>>, RetRect(align_center_y(r, value)))

MinSize ==
    \E width \in Limits, height \in Limits :
        Method("min_size", <<width, height>>, RetRect(min_size(r, width, height)))

MaxSize ==
    \E width \in Limits, height \in Limits :
        Method("max_size", <<width, height>>, RetRect(max_size(r, width, height)))

Union ==
    \E other \in Others : Method("union", <<other>>, RetRect(union(r, other)))

Overlaps ==
    \E other \in Others : Method("overlaps", <<other>>, RetBool(overlaps(r, other)))

Intersect ==
    \E other \in Others : Method("intersect", <<other>>, intersect(r, other))

\* klass.from_rect(r), as in LRBT.from_rect(r).
FromRect ==
    \E klass \in Classes :
        Method("from_rect", <<klass>>, RetTuple(from_rect(klass, r)))

ToTuple == Method("to_tuple", <<>>, RetTuple(to_tuple(cls, r)))

\* The module is loaded and no Rect has been constructed yet.
Init ==
    /\ r = Unbound
    /\ cls = "NoneType"
    /\ box = Unbound
    /\ arcs = <<>>
    /\ current_view = NoView
    /\ shows = [v \in Views |-> 0]
    /\ hides = [v \in Views |-> 0]
    /\ call = Call("import", NoSelf, <<>>, RetNone)
    /\ chain = 0

\* A Rect is immutable: a call on r returns its result and leaves r as it was.
Returns ==
    r # Unbound /\ chain = 0 /\ chain' = 1 /\ r' = r /\ cls' = cls
    /\ UNCHANGED <<box, arcs, current_view, shows, hides>>

Next ==
    \/ Fresh /\ NewLRBT
    \/ Fresh /\ NewLBWH
    \/ Fresh /\ NewXYWH
    \/ Fresh /\ NewXYRR
    \/ Fresh /\ NewViewport
    \/ Returns /\ Bool
    \/ Returns /\ AtPosition
    \/ Returns /\ Move
    \/ Returns /\ Resize
    \/ Returns /\ Scale
    \/ Returns /\ AlignTop
    \/ Returns /\ AlignBottom
    \/ Returns /\ AlignLeft
    \/ Returns /\ AlignRight
    \/ Returns /\ AlignCenter
    \/ Returns /\ AlignCenterX
    \/ Returns /\ AlignCenterY
    \/ Returns /\ MinSize
    \/ Returns /\ MaxSize
    \/ Returns /\ Union
    \/ Returns /\ Overlaps
    \/ Returns /\ Intersect
    \/ Returns /\ FromRect
    \/ Returns /\ ToTuple

Spec == Init /\ [][Next]_vars

\* ------------------------------------------------------------- sequences
\* A script that rebinds the name to each Rect returned, as s = s.move(2, 3)
\* does, starting from LRBT(left, right, bottom, top) with left <= right and
\* bottom <= top and passing only such Rects as the other operand.
Proper(rect) == Le(Left(rect), Right(rect)) /\ Le(Bottom(rect), Top(rect))

Rebinds ==
    /\ r # Unbound
    /\ chain < MaxChain
    /\ chain' = chain + 1
    /\ UNCHANGED <<box, arcs, current_view, shows, hides>>

Rebound ==
    /\ r' = IF Ret(call')[1] = "Rect" THEN RetOf(call') ELSE r
    /\ cls' = IF Ret(call')[1] = "Rect" THEN ResultClass(Op(call')) ELSE cls

NextSeq ==
    \/ Fresh /\ NewLRBT /\ Proper(r')
    \/ Rebinds /\ AtPosition /\ Rebound
    \/ Rebinds /\ Move /\ Rebound
    \/ Rebinds /\ Scale /\ Rebound
    \/ Rebinds /\ AlignTop /\ Rebound
    \/ Rebinds /\ AlignBottom /\ Rebound
    \/ Rebinds /\ AlignLeft /\ Rebound
    \/ Rebinds /\ AlignRight /\ Rebound
    \/ Rebinds /\ AlignCenter /\ Rebound
    \/ Rebinds /\ AlignCenterX /\ Rebound
    \/ Rebinds /\ AlignCenterY /\ Rebound
    \/ Rebinds /\ MinSize /\ Rebound
    \/ Rebinds /\ MaxSize /\ Rebound
    \/ Rebinds /\ Union /\ Proper(Args(call')[1]) /\ Rebound
    \/ Rebinds /\ Intersect /\ Proper(Args(call')[1]) /\ Rebound

SpecSeq == Init /\ [][NextSeq]_vars

\* -------------------------------------------------------------------- Box
\* arcade.types.box: Box is a NamedTuple of twelve fields, built by XYZWHD
\* or LRBTNF.
Box(left, right, bottom, top, near, far, width, height, depth, x, y, z) ==
    <<left, right, bottom, top, near, far, width, height, depth, x, y, z>>

BoxLeft(b) == b[1]
BoxRight(b) == b[2]
BoxBottom(b) == b[3]
BoxTop(b) == b[4]
BoxNear(b) == b[5]
BoxFar(b) == b[6]
BoxWidth(b) == b[7]
BoxHeight(b) == b[8]
BoxDepth(b) == b[9]
BoxX(b) == b[10]
BoxY(b) == b[11]
BoxZ(b) == b[12]

\* A Vec3 is the triple (x, y, z).
Vec3(v_x, v_y, v_z) == <<v_x, v_y, v_z>>

abs(v) == <<Abs(v[1]), v[2]>>

\* XYZWHD with a slip: bottom and top taken from the half width.
XYZWHD_slip(x, y, z, width, height, depth) ==
    LET h_width == Div(width, Two)
        h_depth == Div(depth, Two)
    IN  Box(Sub(x, h_width), Add(x, h_width),
            Sub(y, h_width), Add(y, h_width),
            Sub(z, h_depth), Add(z, h_depth),
            width, height, depth, x, y, z)

XYZWHD(x, y, z, width, height, depth) ==
    LET h_width == Div(width, Two)
        h_height == Div(height, Two)
        h_depth == Div(depth, Two)
    IN  Box(Sub(x, h_width), Add(x, h_width),
            Sub(y, h_height), Add(y, h_height),
            Sub(z, h_depth), Add(z, h_depth),
            width, height, depth, x, y, z)

LRBTNF(left, right, bottom, top, near, far) ==
    LET width == Sub(right, left)
        height == Sub(top, bottom)
        depth == Sub(far, near)
    IN  Box(left, right, bottom, top, near, far, width, height, depth,
            Add(left, Div(width, Two)),
            Add(bottom, Div(height, Two)),
            Add(near, Div(depth, Two)))

RetBox(b) == <<"Box", b>>
RetVec3(v) == <<"Vec3", v>>

Box_top_face_center(self) == Vec3(BoxX(self), BoxTop(self), BoxZ(self))

Box_bottom_face_center(self) == Vec3(BoxX(self), BoxTop(self), BoxZ(self))

Box_at_position(self, position) ==
    XYZWHD(position[1], position[2], position[3],
           BoxWidth(self), BoxHeight(self), BoxDepth(self))

Box_move(self, dx, dy, dz) ==
    XYZWHD(Add(BoxX(self), dx), Add(BoxY(self), dy), Add(BoxZ(self), dz),
           BoxWidth(self), BoxHeight(self), BoxDepth(self))

Box_union(self, other) ==
    LRBTNF(Min(BoxLeft(self), BoxLeft(other)), Max(BoxRight(self), BoxRight(other)),
           Min(BoxBottom(self), BoxBottom(other)), Max(BoxTop(self), BoxTop(other)),
           Min(BoxNear(self), BoxNear(other)), Max(BoxFar(self), BoxFar(other)))

\* overlaps with non-strict comparisons: boxes sharing a face would overlap.
Box_overlaps_touch(self, other) ==
    /\ Le(abs(Sub(BoxX(self), BoxX(other))),
          Div(Add(BoxWidth(other), BoxWidth(self)), Two))
    /\ Le(abs(Sub(BoxY(self), BoxY(other))),
          Div(Add(BoxHeight(other), BoxHeight(self)), Two))
    /\ Le(abs(Sub(BoxZ(self), BoxZ(other))),
          Div(Add(BoxDepth(other), BoxDepth(self)), Two))

Box_overlaps(self, other) ==
    /\ Lt(abs(Sub(BoxX(self), BoxX(other))),
          Div(Add(BoxWidth(other), BoxWidth(self)), Two))
    /\ Lt(abs(Sub(BoxY(self), BoxY(other))),
          Div(Add(BoxHeight(other), BoxHeight(self)), Two))
    /\ Lt(abs(Sub(BoxZ(self), BoxZ(other))),
          Div(Add(BoxDepth(other), BoxDepth(self)), Two))

Box_intersection(self, other) ==
    IF ~Box_overlaps(self, other)
    THEN RetNone
    ELSE RetBox(LRBTNF(
             Max(BoxLeft(self), BoxLeft(other)), Min(BoxRight(self), BoxRight(other)),
             Max(BoxBottom(self), BoxBottom(other)), Min(BoxTop(self), BoxTop(other)),
             Max(BoxNear(self), BoxNear(other)), Min(BoxFar(self), BoxFar(other))))

BoxCoords == { AsFloat(i) : i \in 0..MaxBox }
BoxPoints == BoxCoords \X BoxCoords \X BoxCoords
\* The other operand: a Box of either constructor with one size on all axes.
BoxOthers ==
    { XYZWHD(p[1], p[2], p[3], size, size, size) :
          p \in BoxPoints, size \in BoxCoords }
    \cup
    { LRBTNF(p[1], Add(p[1], size), p[2], Add(p[2], size), p[3], Add(p[3], size)) :
          p \in BoxPoints, size \in BoxCoords }

\* A Box constructor binds the name box; the Rect names are left alone.
ConstructBox(name, args, b) ==
    /\ box' = b
    /\ call' = Call(name, NoSelf, args, RetBox(b))
    /\ chain' = 0
    /\ UNCHANGED <<r, cls, arcs, current_view, shows, hides>>

FreshBox == box = Unbound

NewXYZWHD ==
    \E p \in BoxPoints, size \in BoxPoints :
        ConstructBox("XYZWHD", <<p[1], p[2], p[3], size[1], size[2], size[3]>>,
                     XYZWHD(p[1], p[2], p[3], size[1], size[2], size[3]))

NewLRBTNF ==
    \E lo \in BoxPoints, hi \in BoxPoints :
        ConstructBox("LRBTNF", <<lo[1], hi[1], lo[2], hi[2], lo[3], hi[3]>>,
                     LRBTNF(lo[1], hi[1], lo[2], hi[2], lo[3], hi[3]))

\* box.<name>(*args) returns ret.
BoxMethod(name, args, ret) ==
    call' = Call(name, box, args, ret)

BoxTopFaceCenter ==
    BoxMethod("Box.top_face_center", <<>>, RetVec3(Box_top_face_center(box)))

BoxBottomFaceCenter ==
    BoxMethod("Box.bottom_face_center", <<>>, RetVec3(Box_bottom_face_center(box)))

BoxAtPosition ==
    \E position \in BoxPoints :
        BoxMethod("Box.at_position", <<position>>,
                  RetBox(Box_at_position(box, position)))

BoxMove ==
    \E d \in BoxPoints :
        BoxMethod("Box.move", <<d[1], d[2], d[3]>>,
                  RetBox(Box_move(box, d[1], d[2], d[3])))

BoxUnion ==
    \E other \in BoxOthers :
        BoxMethod("Box.union", <<other>>, RetBox(Box_union(box, other)))

BoxOverlaps ==
    \E other \in BoxOthers :
        BoxMethod("Box.overlaps", <<other>>, RetBool(Box_overlaps(box, other)))

BoxIntersection ==
    \E other \in BoxOthers :
        BoxMethod("Box.intersection", <<other>>, Box_intersection(box, other))

\* One call on the constructed Box; the name is rebound to a Box returned.
BoxCalled ==
    /\ box # Unbound /\ chain = 0 /\ chain' = 1
    /\ UNCHANGED <<r, cls, arcs, current_view, shows, hides>>

BoxRebound == box' = IF Ret(call')[1] = "Box" THEN RetOf(call') ELSE box

NextBox ==
    \/ FreshBox /\ NewXYZWHD
    \/ FreshBox /\ NewLRBTNF
    \/ BoxCalled /\ BoxTopFaceCenter /\ BoxRebound
    \/ BoxCalled /\ BoxBottomFaceCenter /\ BoxRebound
    \/ BoxCalled /\ BoxAtPosition /\ BoxRebound
    \/ BoxCalled /\ BoxMove /\ BoxRebound
    \/ BoxCalled /\ BoxUnion /\ BoxRebound
    \/ BoxCalled /\ BoxOverlaps /\ BoxRebound
    \/ BoxCalled /\ BoxIntersection /\ BoxRebound

SpecBox == Init /\ [][NextBox]_vars

\* --------------------------------------------------------------- parabola
\* arcade.draw.parabola: each helper computes an arc and hands it to one
\* arc primitive; arcs is the log of the primitive calls made.
ArcCall(name, args) == <<name, args>>

draw_parabola_filled(start_x, start_y, end_x, height, color, tilt_angle) ==
    LET center_x == Div(Add(start_x, end_x), Two)
        center_y == Add(start_y, height)
        start_angle == AsFloat(0)
        end_angle == AsFloat(180)
        width == Sub(start_x, end_x)
    IN  << ArcCall("draw_arc_filled",
                   <<center_x, center_y, width, height, color,
                     start_angle, end_angle, tilt_angle>>) >>

\* draw_parabola_outline with the width taken as end_x - start_x.
draw_parabola_outline_slip(start_x, start_y, end_x, height, color, border_width, tilt_angle) ==
    LET center_x == Div(Add(start_x, end_x), Two)
        center_y == Add(start_y, height)
        start_angle == AsFloat(0)
        end_angle == AsFloat(180)
        width == Sub(end_x, start_x)
    IN  << ArcCall("draw_arc_outline",
                   <<center_x, center_y, width, height, color,
                     start_angle, end_angle, border_width, tilt_angle>>) >>

draw_parabola_outline(start_x, start_y, end_x, height, color, border_width, tilt_angle) ==
    LET center_x == Div(Add(start_x, end_x), Two)
        center_y == Add(start_y, height)
        start_angle == AsFloat(0)
        end_angle == AsFloat(180)
        width == Sub(start_x, end_x)
    IN  << ArcCall("draw_arc_outline",
                   <<center_x, center_y, width, height, color,
                     start_angle, end_angle, border_width, tilt_angle>>) >>

\* RGBA255 colors.
Colors == { <<255, 0, 0, 255>>, <<0, 0, 255, 127>> }

\* Nothing has been drawn yet.
NothingDrawn == arcs = <<>>

Draws(name, args, made) ==
    /\ arcs' = arcs \o made
    /\ call' = Call(name, NoSelf, args, RetNone)
    /\ UNCHANGED <<r, cls, chain, box, current_view, shows, hides>>

DrawParabolaFilled ==
    \E start_x \in Coords, start_y \in Coords, end_x \in Coords,
       height \in Coords, color \in Colors, tilt_angle \in Coords :
        Draws("draw_parabola_filled",
              <<start_x, start_y, end_x, height, color, tilt_angle>>,
              draw_parabola_filled(start_x, start_y, end_x, height, color,
                                   tilt_angle))

DrawParabolaOutline ==
    \E start_x \in Coords, start_y \in Coords, end_x \in Coords,
       height \in Coords, color \in Colors, border_width \in Coords,
       tilt_angle \in Coords :
        Draws("draw_parabola_outline",
              <<start_x, start_y, end_x, height, color, border_width, tilt_angle>>,
              draw_parabola_outline(start_x, start_y, end_x, height, color,
                                    border_width, tilt_angle))

NextDraw ==
    \/ NothingDrawn /\ DrawParabolaFilled
    \/ NothingDrawn /\ DrawParabolaOutline

SpecDraw == Init /\ [][NextDraw]_vars

\* ------------------------------------------------------------------ views
\* Window.show_view as the view tests use it: the view that is shown gets
\* on_hide_view, the new view becomes current and gets on_show_view.
\* shows[v] and hides[v] count the calls of v.on_show_view / v.on_hide_view.

\* on_show_view called twice on the view.
on_show_view_twice(counts, view) == [counts EXCEPT ![view] = @ + 2]

on_show_view(counts, view) == [counts EXCEPT ![view] = @ + 1]

on_hide_view(counts, view) ==
    IF view = NoView THEN counts ELSE [counts EXCEPT ![view] = @ + 1]

show_view(new_view) ==
    /\ hides' = on_hide_view(hides, current_view)
    /\ current_view' = new_view
    /\ shows' = on_show_view(shows, new_view)

ShowView ==
    \E new_view \in Views :
        /\ show_view(new_view)
        /\ call' = Call("Window.show_view", NoSelf, <<new_view>>, RetNone)
        /\ chain' = chain + 1
        /\ UNCHANGED <<r, cls, box, arcs>>

NextView == chain < MaxShows /\ ShowView

SpecView == Init /\ [][NextView]_vars

\* ================================================================ claims
Constructors == {"LRBT", "LBWH", "XYWH", "XYRR", "Viewport"}
IsRect(ret) == ret[1] = "Rect"

\* right - left == width, top - bottom == height, x == left + width/2 and
\* y == bottom + height/2.
Consistent(rect) ==
    /\ Sub(Right(rect), Left(rect)) = Width(rect)
    /\ Sub(Top(rect), Bottom(rect)) = Height(rect)
    /\ X(rect) = Add(Left(rect), Div(Width(rect), Two))
    /\ Y(rect) = Add(Bottom(rect), Div(Height(rect), Two))

\* C1: every Rect built by LRBT, LBWH, XYWH, XYRR or Viewport, for any
\* inputs, has mutually consistent fields.
C1_ConstructorsConsistent ==
    Op(call) \in Constructors => Consistent(RetOf(call))

\* C2: r.move(dx, dy) shifts left and right by dx, bottom and top by dy and
\* leaves width and height unchanged, for every Rect r.
C2_MoveTranslates ==
    Op(call) = "move" =>
        LET a == Self(call)
            m == RetOf(call)
            dx == Args(call)[1]
            dy == Args(call)[2]
        IN  /\ Left(m) = Add(Left(a), dx)
            /\ Right(m) = Add(Right(a), dx)
            /\ Bottom(m) = Add(Bottom(a), dy)
            /\ Top(m) = Add(Top(a), dy)
            /\ Width(m) = Width(a)
            /\ Height(m) = Height(a)

\* The point of a Rect at the fractions (anchor.x, anchor.y) of its size.
AnchorOf(rect, anchor) ==
    Vec2(Add(Left(rect), Mul(VecX(anchor), Width(rect))),
         Add(Bottom(rect), Mul(VecY(anchor), Height(rect))))

\* C3: for r.width != 0 and r.height != 0, r.resize(s, a) has width s.x and
\* height s.y, keeps the anchor point where it was, and has bottom <= top
\* whenever s.y >= 0.
C3_ResizeKeepsAnchor ==
    (/\ Op(call) = "resize"
     /\ Width(Self(call)) # Zero
     /\ Height(Self(call)) # Zero) =>
        LET a == Self(call)
            new_size == Args(call)[1]
            anchor == Args(call)[2]
        IN  /\ IsRect(Ret(call))
            /\ Width(RetOf(call)) = VecX(new_size)
            /\ Height(RetOf(call)) = VecY(new_size)
            /\ AnchorOf(RetOf(call), anchor) = AnchorOf(a, anchor)
            /\ (Le(Zero, VecY(new_size)) =>
                    Le(Bottom(RetOf(call)), Top(RetOf(call))))

\* C4: every Rect reached from LRBT(left <= right, bottom <= top) by move,
\* at_position, align_*, scale (factor >= 0), union, intersect, min_size
\* and max_size (limits >= 0) has width >= 0 and height >= 0.
C4_SizeNonNegative ==
    r # Unbound => Le(Zero, Width(r)) /\ Le(Zero, Height(r))

\* C5: each align operation puts the named edge or center at the requested
\* value and leaves width and height unchanged.
C5_AlignExact ==
    LET a == Self(call)
        m == RetOf(call)
        value == Args(call)[1]
        SameSize == Width(m) = Width(a) /\ Height(m) = Height(a)
    IN  /\ Op(call) = "align_top" => Top(m) = value /\ SameSize
        /\ Op(call) = "align_bottom" => Bottom(m) = value /\ SameSize
        /\ Op(call) = "align_left" => Left(m) = value /\ SameSize
        /\ Op(call) = "align_right" => Right(m) = value /\ SameSize
        /\ Op(call) = "align_center_x" => X(m) = value /\ SameSize
        /\ Op(call) = "align_center_y" => Y(m) = value /\ SameSize
        /\ Op(call) = "align_center" =>
               X(m) = VecX(value) /\ Y(m) = VecY(value) /\ SameSize

\* C6: the truth value of a Rect is False if and only if its width or its
\* height is exactly zero.
C6_FalsyIffEmpty ==
    Op(call) = "bool" =>
        (Ret(call) = RetBool(FALSE)
            <=> (Width(Self(call)) = Zero \/ Height(Self(call)) = Zero))

\* C7: for Rects a and b with consistent fields, a.intersect(b) is None if
\* and only if a.overlaps(b) is False.
C7_IntersectIffOverlaps ==
    (/\ Op(call) = "intersect"
     /\ Consistent(Self(call))
     /\ Consistent(Args(call)[1])) =>
        (Ret(call) = RetNone <=> ~overlaps(Self(call), Args(call)[1]))

\* The collision test as the specification words it.
CollisionTest(a, b) ==
    /\ Le(Left(b), Right(a)) /\ Le(Left(a), Right(b))
    /\ Le(Bottom(b), Top(a)) /\ Le(Bottom(a), Top(b))

\* Two well-formed Rects that share an edge coordinate.
Touching(a, b) ==
    /\ Proper(a) /\ Proper(b)
    /\ CollisionTest(a, b)
    /\ \/ Right(a) = Left(b) \/ Right(b) = Left(a)
       \/ Top(a) = Bottom(b) \/ Top(b) = Bottom(a)

\* C8: a.intersect(b) is None exactly when the collision test fails, and is
\* otherwise LRBT(max of lefts, min of rights, max of bottoms, min of tops);
\* Rects that only touch collide and yield a Rect of zero width or height.
C8_IntersectIsCollisionRegion ==
    Op(call) = "intersect" =>
        LET a == Self(call)
            b == Args(call)[1]
        IN  /\ Ret(call) = RetNone <=> ~CollisionTest(a, b)
            /\ CollisionTest(a, b) =>
                   Ret(call) = RetRect(LRBT(Max(Left(a), Left(b)),
                                            Min(Right(a), Right(b)),
                                            Max(Bottom(a), Bottom(b)),
                                            Min(Top(a), Top(b))))
            /\ Touching(a, b) =>
                   /\ IsRect(Ret(call))
                   /\ Width(RetOf(call)) = Zero \/ Height(RetOf(call)) = Zero

\* Two Rects of positive width and height sharing only a vertical edge have
\* been intersected, and the result is a Rect of zero width.
C8_Witness ==
    /\ Op(call) = "intersect"
    /\ Lt(Left(Self(call)), Right(Self(call)))
    /\ Lt(Bottom(Self(call)), Top(Self(call)))
    /\ Lt(Left(Args(call)[1]), Right(Args(call)[1]))
    /\ Lt(Bottom(Args(call)[1]), Top(Args(call)[1]))
    /\ Right(Self(call)) = Left(Args(call)[1])
    /\ IsRect(Ret(call))
    /\ Width(RetOf(call)) = Zero
    /\ Lt(Zero, Height(RetOf(call)))

\* The four corners of a Rect.
Corners(rect) ==
    { Vec2(cx, cy) : cx \in {Left(rect), Right(rect)},
                     cy \in {Bottom(rect), Top(rect)} }

\* Every corner of rect lies within u.
ContainsCorners(u, rect) ==
    \A c \in Corners(rect) :
        /\ Le(Left(u), VecX(c)) /\ Le(VecX(c), Right(u))
        /\ Le(Bottom(u), VecY(c)) /\ Le(VecY(c), Top(u))

\* a.union(b) == b.union(a), and it is LRBT(min of lefts, max of rights,
\* min of bottoms, max of tops).
UnionCommutes(a, b, u) ==
    /\ u = union(b, a)
    /\ Left(u) = Min(Left(a), Left(b))
    /\ Right(u) = Max(Right(a), Right(b))
    /\ Bottom(u) = Min(Bottom(a), Bottom(b))
    /\ Top(u) = Max(Top(a), Top(b))
    /\ Width(u) = Sub(Right(u), Left(u))
    /\ Height(u) = Sub(Top(u), Bottom(u))

\* C9 as stated: union is commutative and, for all Rects a and b, the result
\* contains every corner of a and of b.
C9_UnionContainsAllCorners ==
    Op(call) = "union" =>
        LET a == Self(call)
            b == Args(call)[1]
            u == RetOf(call)
        IN  /\ UnionCommutes(a, b, u)
            /\ ContainsCorners(u, a)
            /\ ContainsCorners(u, b)

\* C9 as amended: union is commutative for all Rects a and b, and the result
\* contains every corner of a and of b when each of them has left <= right
\* and bottom <= top.
C9_UnionContainsProperCorners ==
    Op(call) = "union" =>
        LET a == Self(call)
            b == Args(call)[1]
            u == RetOf(call)
        IN  /\ UnionCommutes(a, b, u)
            /\ (Proper(a) /\ Proper(b)) =>
                   ContainsCorners(u, a) /\ ContainsCorners(u, b)

\* Two well-formed Rects of positive size that do not collide have been
\* united, and the union is wider than either.
C9_Witness ==
    /\ Op(call) = "union"
    /\ Proper(Self(call)) /\ Proper(Args(call)[1])
    /\ Lt(Zero, Width(Self(call))) /\ Lt(Zero, Width(Args(call)[1]))
    /\ ~CollisionTest(Self(call), Args(call)[1])
    /\ Lt(Width(Self(call)), Width(RetOf(call)))
    /\ Lt(Width(Args(call)[1]), Width(RetOf(call)))

\* C10: min_size and max_size keep left and bottom; min_size gives
\* max(limit, size) with an omitted limit as floor 0; max_size gives
\* min(limit, size) for every limit given, 0 included, and leaves the size
\* alone where the limit is omitted.
C10_SizeClamped ==
    LET a == Self(call)
        m == RetOf(call)
        width == Args(call)[1]
        height == Args(call)[2]
        Floor(limit, size) ==
            IF limit = None THEN Max(Zero, size) ELSE Max(limit, size)
        Ceiling(limit, size) ==
            IF limit = None THEN size ELSE Min(limit, size)
    IN  /\ Op(call) = "min_size" =>
               /\ Left(m) = Left(a) /\ Bottom(m) = Bottom(a)
               /\ Width(m) = Floor(width, Width(a))
               /\ Height(m) = Floor(height, Height(a))
        /\ Op(call) = "max_size" =>
               /\ Left(m) = Left(a) /\ Bottom(m) = Bottom(a)
               /\ Width(m) = Ceiling(width, Width(a))
               /\ Height(m) = Ceiling(height, Height(a))

\* C11: for C in {LRBT, LBWH, XYWH} and every 4-tuple t,
\* C.from_rect(C(*t)) == t, and C(*r.to_tuple()) == r for every Rect r
\* built by C.
C11_RoundTrip ==
    /\ (Op(call) = "from_rect" /\ Args(call)[1] \in {"LRBT", "LBWH", "XYWH"}) =>
           \A t \in Coords \X Coords \X Coords \X Coords :
               Self(call) = New(Args(call)[1], t) => Ret(call) = RetTuple(t)
    /\ (Op(call) = "to_tuple" /\ cls \in {"LRBT", "LBWH", "XYWH"}) =>
           /\ Ret(call)[1] = "tuple"
           /\ New(cls, Ret(call)[2]) = Self(call)

\* A Rect built by XYWH with width != height has been turned into its bare
\* tuple, which is (x, y, width, height).
C11_Witness ==
    /\ Op(call) = "to_tuple"
    /\ cls = "XYWH"
    /\ Width(Self(call)) # Height(Self(call))
    /\ Ret(call) = RetTuple(<<X(r), Y(r), Width(r), Height(r)>>)

\* right == left + width, top == bottom + height, far == near + depth,
\* x == left + width/2, y == bottom + height/2 and z == near + depth/2.
BoxConsistent(b) ==
    /\ BoxRight(b) = Add(BoxLeft(b), BoxWidth(b))
    /\ BoxTop(b) = Add(BoxBottom(b), BoxHeight(b))
    /\ BoxFar(b) = Add(BoxNear(b), BoxDepth(b))
    /\ BoxX(b) = Add(BoxLeft(b), Div(BoxWidth(b), Two))
    /\ BoxY(b) = Add(BoxBottom(b), Div(BoxHeight(b), Two))
    /\ BoxZ(b) = Add(BoxNear(b), Div(BoxDepth(b), Two))

\* C12: every Box produced by XYZWHD or LRBTNF, and every Box that move,
\* at_position, union or intersection returns and the name is rebound to,
\* has consistent fields.
C12_BoxConsistent ==
    /\ box # Unbound => BoxConsistent(box)
    /\ Ret(call)[1] = "Box" => BoxConsistent(RetOf(call))

\* A Box whose three sizes all differ has been moved by a non-zero delta
\* and the name is bound to the moved Box.
C12_Witness ==
    /\ Op(call) = "Box.move"
    /\ Args(call) # <<Zero, Zero, Zero>>
    /\ BoxWidth(Self(call)) # BoxHeight(Self(call))
    /\ BoxHeight(Self(call)) # BoxDepth(Self(call))
    /\ BoxWidth(Self(call)) # BoxDepth(Self(call))
    /\ box = RetOf(call)
    /\ box # Self(call)

\* Half the summed extents exceeds the center distance on every axis.
OverlapTest(a, b) ==
    /\ Lt(abs(Sub(BoxX(a), BoxX(b))), Div(Add(BoxWidth(a), BoxWidth(b)), Two))
    /\ Lt(abs(Sub(BoxY(a), BoxY(b))), Div(Add(BoxHeight(a), BoxHeight(b)), Two))
    /\ Lt(abs(Sub(BoxZ(a), BoxZ(b))), Div(Add(BoxDepth(a), BoxDepth(b)), Two))

\* A Box of positive width, height and depth.
Solid(b) ==
    /\ Lt(Zero, BoxWidth(b)) /\ Lt(Zero, BoxHeight(b)) /\ Lt(Zero, BoxDepth(b))

\* Two solid boxes that meet in a face plane and lie on opposite sides of it.
FaceTouching(a, b) ==
    /\ Solid(a) /\ Solid(b)
    /\ \/ BoxRight(a) = BoxLeft(b) \/ BoxRight(b) = BoxLeft(a)
       \/ BoxTop(a) = BoxBottom(b) \/ BoxTop(b) = BoxBottom(a)
       \/ BoxFar(a) = BoxNear(b) \/ BoxFar(b) = BoxNear(a)

\* C13: a.intersection(b) is None exactly when a.overlaps(b) is false, the
\* strict per-axis test; boxes that only touch on a face yield None, and
\* otherwise the result is LRBTNF(max lefts, min rights, max bottoms,
\* min tops, max nears, min fars).
C13_IntersectionIffOverlaps ==
    /\ Op(call) = "Box.overlaps" =>
           Ret(call) = RetBool(OverlapTest(Self(call), Args(call)[1]))
    /\ Op(call) = "Box.intersection" =>
           LET a == Self(call)
               b == Args(call)[1]
           IN  /\ Ret(call) = RetNone <=> ~OverlapTest(a, b)
               /\ OverlapTest(a, b) =>
                      Ret(call) = RetBox(LRBTNF(
                          Max(BoxLeft(a), BoxLeft(b)), Min(BoxRight(a), BoxRight(b)),
                          Max(BoxBottom(a), BoxBottom(b)), Min(BoxTop(a), BoxTop(b)),
                          Max(BoxNear(a), BoxNear(b)), Min(BoxFar(a), BoxFar(b))))
               /\ FaceTouching(a, b) => Ret(call) = RetNone

\* Two solid boxes that share the plane right == left, and whose extents
\* overlap on the other two axes, have been intersected: the result is None.
C13_Witness ==
    /\ Op(call) = "Box.intersection"
    /\ Solid(Self(call)) /\ Solid(Args(call)[1])
    /\ BoxRight(Self(call)) = BoxLeft(Args(call)[1])
    /\ Lt(BoxBottom(Args(call)[1]), BoxTop(Self(call)))
    /\ Lt(BoxBottom(Self(call)), BoxTop(Args(call)[1]))
    /\ Lt(BoxNear(Args(call)[1]), BoxFar(Self(call)))
    /\ Lt(BoxNear(Self(call)), BoxFar(Args(call)[1]))
    /\ Ret(call) = RetNone

\* C14: bottom_face_center is (x, bottom, z), top_face_center is
\* (x, top, z), and the two differ for every Box with height != 0.
C14_FaceCenters ==
    /\ Op(call) = "Box.bottom_face_center" =>
           /\ Ret(call) = RetVec3(Vec3(BoxX(Self(call)), BoxBottom(Self(call)),
                                       BoxZ(Self(call))))
           /\ BoxHeight(Self(call)) # Zero =>
                  Ret(call) # RetVec3(Box_top_face_center(Self(call)))
    /\ Op(call) = "Box.top_face_center" =>
           Ret(call) = RetVec3(Vec3(BoxX(Self(call)), BoxTop(Self(call)),
                                    BoxZ(Self(call))))

\* The arc's geometry: center_x, center_y, width, height, start angle, end
\* angle and tilt angle of a primitive call.
Geometry(arc) ==
    LET a == arc[2]
    IN  <<a[1], a[2], a[3], a[4], a[6], a[7], a[Len(a)]>>

\* C15: draw_parabola_filled and draw_parabola_outline each make exactly one
\* arc-primitive call with center_x = (start_x + end_x)/2, center_y =
\* start_y + height, width = start_x - end_x, the given height, color and
\* tilt_angle, start angle 0 and end angle 180 (the outline also forwards
\* border_width); for the same inputs the two arcs have the same geometry.
C15_ParabolaIsOneArc ==
    /\ Op(call) = "draw_parabola_filled" =>
           LET a == Args(call)
           IN  /\ arcs = << ArcCall("draw_arc_filled",
                             <<Div(Add(a[1], a[3]), Two), Add(a[2], a[4]),
                               Sub(a[1], a[3]), a[4], a[5],
                               AsFloat(0), AsFloat(180), a[6]>>) >>
               /\ \A border_width \in Coords :
                      Geometry(arcs[1]) =
                          Geometry(draw_parabola_outline(a[1], a[2], a[3], a[4],
                                       a[5], border_width, a[6])[1])
    /\ Op(call) = "draw_parabola_outline" =>
           LET a == Args(call)
           IN  /\ arcs = << ArcCall("draw_arc_outline",
                             <<Div(Add(a[1], a[3]), Two), Add(a[2], a[4]),
                               Sub(a[1], a[3]), a[4], a[5],
                               AsFloat(0), AsFloat(180), a[6], a[7]>>) >>
               /\ Geometry(arcs[1]) =
                      Geometry(draw_parabola_filled(a[1], a[2], a[3], a[4],
                                   a[5], a[7])[1])

\* An outline has been drawn from a start_x left of end_x, with a border
\* width that differs from the tilt angle: one arc of negative width.
C15_Witness ==
    /\ Op(call) = "draw_parabola_outline"
    /\ Lt(Args(call)[1], Args(call)[3])
    /\ Args(call)[6] # Args(call)[7]
    /\ Len(arcs) = 1
    /\ Lt(arcs[1][2][3], Zero)

\* C16: show_view(v) calls v.on_show_view exactly once, and when another
\* view u is shown at that moment it calls u.on_hide_view exactly once.
C16_ShowViewCallsHooksOnce ==
    [][Op(call') = "Window.show_view" =>
           LET v == Args(call')[1]
               u == current_view
           IN  /\ shows'[v] = shows[v] + 1
               /\ (u # NoView /\ u # v) => hides'[u] = hides[u] + 1]_vars

\* View 1 was shown and then view 2: view 2 got on_show_view once and
\* view 1 got on_hide_view once.
C16_Witness ==
    /\ Op(call) = "Window.show_view"
    /\ Args(call) = <<2>>
    /\ current_view = 2
    /\ chain = 2
    /\ shows = [v \in Views |-> IF v \in {1, 2} THEN 1 ELSE 0]
    /\ hides = [v \in Views |-> IF v = 1 THEN 1 ELSE 0]
====
